---- MODULE Spec2Model ----
(***************************************************************************)
(* The flow() decorator of agentic/core/flow.py: the dependency analyzer   *)
(* (_reads_writes), the graph builder (the loop over the function body)    *)
(* and the scheduler (wrapped) with its thread pool.                       *)
(*                                                                         *)
(* Indices are 0-based as in the source: statement idx of a block is       *)
(* statements[idx + 1], node i is nodes[i + 1].                            *)
(***************************************************************************)
EXTENDS Integers, Sequences, FiniteSets, TLC

VARIABLES
    statements,      \* fnode.body of the decorated function
    pc,              \* source, compiled, kick, wait, process, returned, raised, eval_raised
    nodes,           \* flow(): index -> [code, deps, dependents]
    return_code,     \* flow(): the compiled return expression, or NoReturn
    locals_ns,       \* wrapped(): the call namespace shared by all nodes
    deps_remaining,  \* wrapped(): node -> dependencies not yet seen completed
    futures,         \* wrapped(): the futures the event loop still tracks (by node)
    fstate,          \* per node: the state of its future / work item in the pool
    computed,        \* per node: the value its statement evaluated, not yet stored
    exc,             \* per node: the exception its future holds
    done,            \* the batch concurrent.futures.wait returned, still to process
    ki,              \* the kick-off loop's index
    observed,        \* the futures the event loop popped, in order
    evals,           \* how many times the return expression was evaluated
    result,          \* what the call returned or raised
    submits,         \* per node: how many times submit_node was called for it
    last_writer,     \* per name of locals_ns: the node whose store came last
    prev,            \* the contexts of the earlier calls, which their pool threads still use
    loop_context,    \* loop.py: the module global _loop_context
    last_with,       \* the keyword set of the most recent with_context call
    lpc,             \* loop(): idle, collect, exit, returned, raised
    iterable,        \* loop(): the collection or the integer it was given
    loop_fn,         \* loop(): the decorated element operation
    explicit_context, \* loop(): the keyword arguments of the call
    called_default,  \* what the most recent with_context had set when loop was called
    context,         \* decorator(): the merged context
    items,           \* decorator(): list(range(iterable)) or list(iterable)
    lfut,            \* decorator(): futures, one per item, in item order
    lk,              \* decorator(): position of the result-collecting comprehension
    lout,            \* decorator(): the list the comprehension has built so far
    lresult,         \* what the loop call returned or raised
    lfinished        \* the element indices in the order their operations finished

flowvars == <<statements, pc, nodes, return_code, locals_ns, deps_remaining, futures,
              fstate, computed, exc, done, ki, observed, evals, result,
              submits, last_writer, prev>>

loopvars == <<loop_context, last_with, lpc, iterable, loop_fn, explicit_context,
              called_default, context, items, lfut, lk, lout, lresult, lfinished>>

vars == <<flowvars, loopvars>>

-----------------------------------------------------------------------------
(* Bounds *)

\* longest generated function body (statements, the return included)
MaxStmts == 3

\* longest generated collection, and the largest integer, given to loop
MaxItems == 2

\* calls of one compiled callable
MaxCalls == 2

\* longest generated body that is called more than once
MaxCallStmts == 1

-----------------------------------------------------------------------------
(* Statements: what ast.walk sees of one statement, and what exec does.    *)

\* names bound in fn.__globals__: the functions the blocks call
Globals == {"f1", "f2", "boom"}

\* names removed from every reads set by the builtins filter
Builtins == {"items"}

\* the value a called function returns (f1 returns 2, f2 returns 3)
FnValue(fn) == IF fn = "f1" THEN 2 ELSE IF fn = "f2" THEN 3 ELSE 0

\* target = fn() + sum(vars) + k ; fn = "" when nothing is called
Assign(target, fn, vs, k) ==
    [kind |-> "Assign", loads |-> vs \cup (IF fn = "" THEN {} ELSE {fn}),
     stores |-> {target}, fn |-> fn, k |-> k]

\* if c: target = sum(vars) + k    (one statement of fnode.body, one node)
IfStmt(c, target, vs, k) ==
    [kind |-> "If", loads |-> vs \cup {c},
     stores |-> {target}, fn |-> "", k |-> k]

\* target += sum(vars) + k : ast gives the target the Store context only
AugAssign(target, vs, k) ==
    [kind |-> "AugAssign", loads |-> vs, stores |-> {target}, fn |-> "", k |-> k]

\* return sum(vars) + k
Return(vs, k) ==
    [kind |-> "Return", loads |-> vs, stores |-> {}, fn |-> "", k |-> k]

\* the statement shapes the docstring of flow() excludes
UnsupportedKinds == {"If", "For", "While", "With", "Try"}

\* _reads_writes(node): Load names minus the builtins, Store names
reads_writes(stmt) ==
    [reads |-> stmt.loads \ Builtins, writes |-> stmt.stores]

-----------------------------------------------------------------------------
(* The blocks flow() is applied to.                                        *)

\* a = f1(); b = f2(); c = a + 1; d = b + 1; return c + d
LiteralBlock ==
    << Assign("a", "f1", {}, 0), Assign("b", "f2", {}, 0),
       Assign("c", "", {"a"}, 1), Assign("d", "", {"b"}, 1),
       Return({"c", "d"}, 0) >>

\* the same block with f1 raising
FailureBlock ==
    << Assign("a", "boom", {}, 0), Assign("b", "f2", {}, 0),
       Assign("c", "", {"a"}, 1), Assign("d", "", {"b"}, 1),
       Return({"c", "d"}, 0) >>

\* A writes x; B reads x, writes y; C reads x, writes z; D reads y and z
DiamondBlock ==
    << Assign("x", "f1", {}, 0), Assign("y", "", {"x"}, 1),
       Assign("z", "", {"x"}, 2), Assign("w", "", {"y", "z"}, 0),
       Return({"w"}, 0) >>

\* two writers of x without an edge between them, a later reader, the result
RaceBlock ==
    << Assign("x", "f1", {}, 0), Assign("x", "f2", {}, 0),
       Assign("y", "", {"x"}, 1), Return({"x"}, 0) >>

\* a return statement left before the operations of the body
EarlyReturnBlock ==
    << Return({"x"}, 0), Assign("x", "f1", {}, 0), Assign("w", "f2", {}, 0),
       Assign("y", "", {"x"}, 1) >>

\* the statements the generated bodies are made of
Alphabet ==
    { Assign("x", "f1", {}, 0),        \* x = f1()
      Assign("x", "f2", {}, 0),        \* x = f2()
      Assign("x", "boom", {}, 0),      \* x = boom()
      Assign("y", "", {"x"}, 1),       \* y = x + 1
      Assign("z", "", {"x", "y"}, 0),  \* z = x + y
      IfStmt("x", "y", {"x"}, 1),      \* if x: y = x + 1
      Return({"x"}, 0) }               \* return x

\* every body of 1..MaxStmts statements over the alphabet
GeneratedBlocks ==
    UNION { [1..n -> Alphabet] : n \in 1..MaxStmts }

Blocks ==
    {LiteralBlock, FailureBlock, DiamondBlock, RaceBlock, EarlyReturnBlock}
        \cup GeneratedBlocks

\* x = f1(); x += 1; return x
AugBlock ==
    << Assign("x", "f1", {}, 0), AugAssign("x", {}, 1), Return({"x"}, 0) >>

\* items = f1(); y = items + 1; return y    (items is a name the builtins filter removes)
BuiltinNameBlock ==
    << Assign("items", "f1", {}, 0), Assign("y", "", {"items"}, 1), Return({"y"}, 0) >>

\* def f(a): t = f1(); y = a + t; a = f2(); return y    (a is overwritten after it is read)
WarBlock ==
    << Assign("t", "f1", {}, 0), Assign("y", "", {"a", "t"}, 0),
       Assign("a", "f2", {}, 0), Return({"y"}, 0) >>

\* the bodies with an augmented assignment, a filtered name or a parameter
ExtraBlocks == {AugBlock, BuiltinNameBlock, WarBlock}

\* the parameters of the decorated function: only WarBlock has one
argnames(stmts) == IF stmts = WarBlock THEN {"a"} ELSE {}

\* the call's positional arguments: f(5)
Arguments(stmts) == [n \in argnames(stmts) |-> 5]

-----------------------------------------------------------------------------
(* flow(): the graph builder                                               *)

NoReturn == [kind |-> "None", loads |-> {}, stores |-> {}, fn |-> "", k |-> 0]

\* faulty variant: the reads are never resolved against the producer map
DepsDropped(var_producer, reads) == {}

\* deps = {var_producer[v] for v in reads if v in var_producer}
Deps(var_producer, reads) ==
    { var_producer[v] : v \in reads \cap DOMAIN var_producer }

\* faulty variant: the first writer of a name stays its producer
ProduceFirstWins(var_producer, writes, idx) ==
    [v \in DOMAIN var_producer \cup writes |->
        IF v \in DOMAIN var_producer THEN var_producer[v] ELSE idx]

\* for v in writes: var_producer[v] = idx
Produce(var_producer, writes, idx) ==
    [v \in DOMAIN var_producer \cup writes |->
        IF v \in writes THEN idx ELSE var_producer[v]]

\* the loop over enumerate(statements), from idx on
RECURSIVE Build(_, _, _, _, _)
Build(stmts, idx, ns, var_producer, ret) ==
    IF idx = Len(stmts)
    THEN [nodes |-> ns, return_expr |-> ret]
    ELSE LET stmt == stmts[idx + 1]
             rw   == reads_writes(stmt)
         IN  IF stmt.kind = "Return"
             THEN Build(stmts, idx + 1, ns, var_producer, stmt)
             ELSE Build(stmts, idx + 1,
                        Append(ns, [code |-> stmt,
                                    deps |-> Deps(var_producer, rw.reads),
                                    dependents |-> {}]),
                        Produce(var_producer, rw.writes, idx),
                        ret)

\* faulty variant: the reverse edges are never filled in
NoDependents(ns) == ns

\* dependents_map[parent].add(child_idx), then n["dependents"] = dependents_map[idx]
FillDependents(ns) ==
    [i \in 1..Len(ns) |->
        [ns[i] EXCEPT !.dependents =
            { child \in 0..(Len(ns) - 1) : (i - 1) \in ns[child + 1].deps }]]

NodeIds == 0..(Len(nodes) - 1)
Node(i) == nodes[i + 1]

-----------------------------------------------------------------------------
(* State *)

NoValue == [kind |-> "none", v |-> 0, exc |-> "", node |-> -1]
NoExc   == [exc |-> "", node |-> -1]
Empty   == [v \in {} |-> 0]

\* loop.py has been imported and loop has not been called
NoOutcome == [kind |-> "none", v |-> 0, exc |-> ""]
NoResult  == [kind |-> "none", list |-> << >>, exc |-> "", item |-> 0, index |-> 0]

LoopIdle ==
    /\ loop_context = Empty
    /\ last_with = Empty
    /\ lpc = "idle"
    /\ iterable = [isint |-> FALSE, n |-> 0, seq |-> << >>]
    /\ loop_fn = "double"
    /\ explicit_context = Empty
    /\ called_default = Empty
    /\ context = Empty
    /\ items = << >>
    /\ lfut = << >>
    /\ lk = 1
    /\ lout = << >>
    /\ lresult = NoResult
    /\ lfinished = << >>

InitWith(bodies) ==
    /\ statements \in bodies
    /\ pc = "source"
    /\ nodes = << >>
    /\ return_code = NoReturn
    /\ locals_ns = Empty
    /\ deps_remaining = Empty
    /\ futures = {}
    /\ fstate = Empty
    /\ computed = Empty
    /\ exc = Empty
    /\ done = {}
    /\ ki = 0
    /\ observed = << >>
    /\ evals = 0
    /\ result = NoValue
    /\ submits = Empty
    /\ last_writer = Empty
    /\ prev = << >>
    /\ LoopIdle

Init == InitWith(Blocks)

\* flow(fn): build the nodes and the return code; no statement shape is refused
Flow ==
    /\ pc = "source"
    /\ LET g == Build(statements, 0, << >>, Empty, NoReturn)
       IN  /\ nodes' = FillDependents(g.nodes)
           /\ return_code' = g.return_expr
    /\ pc' = "compiled"
    /\ UNCHANGED <<loopvars, statements, locals_ns, deps_remaining, futures, fstate, computed,
                   exc, done, ki, observed, evals, result,
                   submits, last_writer, prev>>

-----------------------------------------------------------------------------
(* exec(code, globals_ns, locals_ns) of one statement                      *)

\* the variables whose value the statement reads from the namespace
Consumed(stmt) ==
    (stmt.loads \cup (IF stmt.kind = "AugAssign" THEN stmt.stores ELSE {})) \ Globals

\* a name is looked up in locals_ns, then in globals_ns
Unbound(stmt, ns) == { v \in Consumed(stmt) : v \notin DOMAIN ns }

RECURSIVE SumOf(_, _)
SumOf(ns, S) ==
    IF S = {} THEN 0
    ELSE LET v == CHOOSE u \in S : TRUE IN ns[v] + SumOf(ns, S \ {v})

\* the value of the statement's right-hand side (of the return expression)
ValueOf(stmt, ns) == FnValue(stmt.fn) + SumOf(ns, Consumed(stmt)) + stmt.k

\* the statement's body raises: the called function does, or a name is unbound
Raises(stmt, ns) == stmt.fn = "boom" \/ Unbound(stmt, ns) # {}

ExcOf(stmt, ns, i) ==
    IF stmt.fn = "boom" THEN [exc |-> "RuntimeError", node |-> i]
                        ELSE [exc |-> "NameError", node |-> i]

\* faulty variant: a name already bound keeps its first value
BindOnce(ns, names, v) ==
    [n \in DOMAIN ns \cup names |-> IF n \in DOMAIN ns THEN ns[n] ELSE v]

\* the namespace after the statement's stores
Bind(ns, names, v) ==
    [n \in DOMAIN ns \cup names |-> IF n \in names THEN v ELSE ns[n]]

-----------------------------------------------------------------------------
(* wrapped(): the scheduler                                                *)

\* faulty variant: a node is taken as ready with one dependency still outstanding
ReadyTooEarly(count) == count <= 1

\* if deps_remaining[i] == 0
Ready(count) == count = 0

\* faulty variant: the exception of a completed future is never looked at
NeverException(st) == FALSE

\* if fut.exception()
HasException(st) == st = "failed"

\* the future is done: concurrent.futures.wait returns it
Finished(st) == st \in {"ok", "failed"}

\* the worker is inside exec() of the node's statement
Running(st) == st \in {"running", "computed"}

\* submit_node(i) for every i of S: a work item in the pool's queue, a tracked future
submit_node(fs, S) == [i \in DOMAIN fs |-> IF i \in S THEN "queued" ELSE fs[i]]

\* submit_node(i) was called once more for every i of S
Submitted(sub, S) == [i \in DOMAIN sub |-> IF i \in S THEN sub[i] + 1 ELSE sub[i]]

\* faulty variant: a pool of one worker thread
SingleWorker(n) == 1

\* ThreadPoolExecutor(max_workers=len(nodes) or 1)
max_workers(n) == IF n = 0 THEN 1 ELSE n

\* faulty variant: shutdown without cancel_futures
ShutdownNoCancel(fs) == fs

\* executor.shutdown(wait=False, cancel_futures=True): queued items are cancelled,
\* running ones are left running
Shutdown(fs) == [i \in DOMAIN fs |-> IF fs[i] = "queued" THEN "cancelled" ELSE fs[i]]

\* faulty variant: the exception of the lowest-numbered failed node is raised
PropagatedLowest(f, excs) ==
    excs[CHOOSE g \in DOMAIN excs :
            /\ excs[g].node = g
            /\ \A h \in DOMAIN excs : excs[h].node = h => g <= h]

\* raise fut.exception()
Propagated(f, excs) == excs[f]

\* faulty variant: a completion counts twice
DecrementTwice(dr, children) ==
    [c \in DOMAIN dr |-> IF c \in children THEN dr[c] - 2 ELSE dr[c]]

\* deps_remaining[child] -= 1 for every child of the completed node
Decrement(dr, children) ==
    [c \in DOMAIN dr |-> IF c \in children THEN dr[c] - 1 ELSE dr[c]]

\* faulty variant: one namespace dict made in flow() and used by every call
SharedNamespace(previous) == previous

\* locals_ns = {} in wrapped(): a new dict at every call, whatever an earlier call left
call_namespace(previous) == Empty

\* locals_ns.update(dict(zip(argnames, args)))
bind_arguments(ns, bindings) == bindings @@ ns

\* the call starts: namespace, counters, bookkeeping
Call ==
    /\ pc = "compiled"
    /\ locals_ns' = bind_arguments(call_namespace(locals_ns), Arguments(statements))
    /\ deps_remaining' = [i \in NodeIds |-> Cardinality(Node(i).deps)]
    /\ futures' = {}
    /\ fstate' = [i \in NodeIds |-> "none"]
    /\ computed' = [i \in NodeIds |-> 0]
    /\ exc' = [i \in NodeIds |-> NoExc]
    /\ ki' = 0
    /\ submits' = [i \in NodeIds |-> 0]
    /\ last_writer' = Empty
    /\ pc' = IF Len(nodes) = 0 THEN "wait" ELSE "kick"
    /\ UNCHANGED <<loopvars, statements, nodes, return_code, done, observed, evals, result, prev>>

\* one iteration of the kick-off loop
KickOff ==
    /\ pc = "kick"
    /\ IF Ready(deps_remaining[ki])
       THEN /\ fstate' = submit_node(fstate, {ki})
            /\ futures' = futures \cup {ki}
            /\ submits' = Submitted(submits, {ki})
       ELSE UNCHANGED <<fstate, futures, submits>>
    /\ ki' = ki + 1
    /\ pc' = IF ki + 1 = Len(nodes) THEN "wait" ELSE "kick"
    /\ UNCHANGED <<loopvars, statements, nodes, return_code, locals_ns, deps_remaining,
                   computed, exc, done, observed, evals, result,
                   last_writer, prev>>

\* a pool thread takes the node's work item from the queue
StartNode(i) ==
    /\ fstate[i] = "queued"
    /\ Cardinality({ j \in DOMAIN fstate : Running(fstate[j]) }) < max_workers(Len(nodes))
    /\ fstate' = [fstate EXCEPT ![i] = "running"]
    /\ UNCHANGED <<loopvars, statements, pc, nodes, return_code, locals_ns, deps_remaining,
                   futures, computed, exc, done, ki, observed, evals, result,
                   submits, last_writer, prev>>

\* the statement's right-hand side is evaluated against the namespace
EvalNode(i) ==
    /\ fstate[i] = "running"
    /\ ~Raises(Node(i).code, locals_ns)
    /\ computed' = [computed EXCEPT ![i] = ValueOf(Node(i).code, locals_ns)]
    /\ fstate' = [fstate EXCEPT ![i] = "computed"]
    /\ UNCHANGED <<loopvars, statements, pc, nodes, return_code, locals_ns, deps_remaining,
                   futures, exc, done, ki, observed, evals, result,
                   submits, last_writer, prev>>

\* the statement raises: the future completes with the exception
RaiseNode(i) ==
    /\ fstate[i] = "running"
    /\ Raises(Node(i).code, locals_ns)
    /\ exc' = [exc EXCEPT ![i] = ExcOf(Node(i).code, locals_ns, i)]
    /\ fstate' = [fstate EXCEPT ![i] = "failed"]
    /\ UNCHANGED <<loopvars, statements, pc, nodes, return_code, locals_ns, deps_remaining,
                   futures, computed, done, ki, observed, evals, result,
                   submits, last_writer, prev>>

\* the value is stored in the namespace and the future completes
StoreNode(i) ==
    /\ fstate[i] = "computed"
    /\ locals_ns' = Bind(locals_ns, Node(i).code.stores, computed[i])
    /\ last_writer' = [n \in DOMAIN last_writer \cup Node(i).code.stores |->
                           IF n \in Node(i).code.stores THEN i ELSE last_writer[n]]
    /\ fstate' = [fstate EXCEPT ![i] = "ok"]
    /\ UNCHANGED <<loopvars, statements, pc, nodes, return_code, deps_remaining,
                   futures, computed, exc, done, ki, observed, evals, result,
                   submits, prev>>

\* concurrent.futures.wait(futures, FIRST_COMPLETED): every tracked future that is done
Wait ==
    /\ pc = "wait"
    /\ futures # {}
    /\ \E f \in futures : Finished(fstate[f])
    /\ done' = { f \in futures : Finished(fstate[f]) }
    /\ pc' = "process"
    /\ UNCHANGED <<loopvars, statements, nodes, return_code, locals_ns, deps_remaining,
                   futures, fstate, computed, exc, ki, observed, evals, result,
                   submits, last_writer, prev>>

\* for fut in done, a future without exception: its dependents are counted down
\* and those that reach zero are submitted
ProcessDone(f) ==
    /\ pc = "process"
    /\ f \in done
    /\ ~HasException(fstate[f])
    /\ LET dr    == Decrement(deps_remaining, Node(f).dependents)
           ready == { c \in Node(f).dependents : Ready(dr[c]) }
       IN  /\ deps_remaining' = dr
           /\ fstate' = submit_node(fstate, ready)
           /\ submits' = Submitted(submits, ready)
           /\ futures' = (futures \ {f}) \cup ready
    /\ done' = done \ {f}
    /\ observed' = Append(observed, f)
    /\ pc' = IF done' = {} THEN "wait" ELSE "process"
    /\ UNCHANGED <<loopvars, statements, nodes, return_code, locals_ns, computed, exc, ki,
                   evals, result,
                   last_writer, prev>>

\* for fut in done, a future with an exception: shut the pool down and raise it
ProcessFailed(f) ==
    /\ pc = "process"
    /\ f \in done
    /\ HasException(fstate[f])
    /\ futures' = futures \ {f}
    /\ done' = done \ {f}
    /\ observed' = Append(observed, f)
    /\ fstate' = Shutdown(fstate)
    /\ result' = [kind |-> "raise", v |-> 0,
                  exc |-> Propagated(f, exc).exc, node |-> Propagated(f, exc).node]
    /\ pc' = "raised"
    /\ UNCHANGED <<loopvars, statements, nodes, return_code, locals_ns, deps_remaining,
                   computed, exc, ki, evals,
                   submits, last_writer, prev>>

\* the event loop ended; there is no return statement: return None
ReturnNone ==
    /\ pc = "wait"
    /\ futures = {}
    /\ return_code = NoReturn
    /\ result' = [kind |-> "None", v |-> 0, exc |-> "", node |-> -1]
    /\ pc' = "returned"
    /\ UNCHANGED <<loopvars, statements, nodes, return_code, locals_ns, deps_remaining,
                   futures, fstate, computed, exc, done, ki, observed, evals,
                   submits, last_writer, prev>>

\* the event loop ended: eval(return_code, globals_ns, locals_ns)
ReturnValue ==
    /\ pc = "wait"
    /\ futures = {}
    /\ return_code # NoReturn
    /\ evals' = evals + 1
    /\ IF Raises(return_code, locals_ns)
       THEN /\ result' = [kind |-> "raise", v |-> 0, exc |-> "NameError", node |-> -1]
            /\ pc' = "eval_raised"
       ELSE /\ result' = [kind |-> "value", v |-> ValueOf(return_code, locals_ns),
                          exc |-> "", node |-> -1]
            /\ pc' = "returned"
    /\ UNCHANGED <<loopvars, statements, nodes, return_code, locals_ns, deps_remaining,
                   futures, fstate, computed, exc, done, ki, observed,
                   submits, last_writer, prev>>

\* the callable is called again after a call has ended; the pool threads of the
\* ended call keep its namespace
CallAgain ==
    /\ pc \in {"returned", "raised", "eval_raised"}
    /\ Len(prev) + 1 < MaxCalls
    /\ prev' = Append(prev, [locals_ns |-> locals_ns, fstate |-> fstate,
                             computed |-> computed])
    /\ locals_ns' = bind_arguments(call_namespace(locals_ns), Arguments(statements))
    /\ deps_remaining' = [i \in NodeIds |-> Cardinality(Node(i).deps)]
    /\ futures' = {}
    /\ fstate' = [i \in NodeIds |-> "none"]
    /\ computed' = [i \in NodeIds |-> 0]
    /\ exc' = [i \in NodeIds |-> NoExc]
    /\ done' = {}
    /\ ki' = 0
    /\ observed' = << >>
    /\ evals' = 0
    /\ result' = NoValue
    /\ submits' = [i \in NodeIds |-> 0]
    /\ last_writer' = Empty
    /\ pc' = IF Len(nodes) = 0 THEN "wait" ELSE "kick"
    /\ UNCHANGED <<loopvars, statements, nodes, return_code>>

\* a pool thread of an ended call evaluates its statement against that call's namespace
PrevEval(c, i) ==
    /\ prev[c].fstate[i] = "running"
    /\ ~Raises(Node(i).code, prev[c].locals_ns)
    /\ prev' = [prev EXCEPT ![c].computed[i] = ValueOf(Node(i).code, prev[c].locals_ns),
                            ![c].fstate[i] = "computed"]
    /\ UNCHANGED <<loopvars, statements, pc, nodes, return_code, locals_ns, deps_remaining,
                   futures, fstate, computed, exc, done, ki, observed, evals, result,
                   submits, last_writer>>

\* ... or its statement raises; nobody looks at the future any more
PrevRaise(c, i) ==
    /\ prev[c].fstate[i] = "running"
    /\ Raises(Node(i).code, prev[c].locals_ns)
    /\ prev' = [prev EXCEPT ![c].fstate[i] = "failed"]
    /\ UNCHANGED <<loopvars, statements, pc, nodes, return_code, locals_ns, deps_remaining,
                   futures, fstate, computed, exc, done, ki, observed, evals, result,
                   submits, last_writer>>

\* ... and stores into that call's namespace
PrevStore(c, i) ==
    /\ prev[c].fstate[i] = "computed"
    /\ prev' = [prev EXCEPT ![c].locals_ns =
                                Bind(prev[c].locals_ns, Node(i).code.stores,
                                     prev[c].computed[i]),
                            ![c].fstate[i] = "ok"]
    /\ UNCHANGED <<loopvars, statements, pc, nodes, return_code, locals_ns, deps_remaining,
                   futures, fstate, computed, exc, done, ki, observed, evals, result,
                   submits, last_writer>>

Next ==
    \/ Flow
    \/ Call
    \/ KickOff
    \/ \E i \in DOMAIN fstate : StartNode(i)
    \/ \E i \in DOMAIN fstate : EvalNode(i)
    \/ \E i \in DOMAIN fstate : RaiseNode(i)
    \/ \E i \in DOMAIN fstate : StoreNode(i)
    \/ Wait
    \/ \E f \in done : ProcessDone(f)
    \/ \E f \in done : ProcessFailed(f)
    \/ ReturnNone
    \/ ReturnValue

Spec == Init /\ [][Next]_vars

\* flow(fn) alone: the decorated function is compiled and never called
SpecBuild == Init /\ [][Flow]_vars

\* flow(fn) alone, also for the bodies with an augmented assignment, a filtered
\* name or a parameter
SpecAnalyze == InitWith(Blocks \cup ExtraBlocks) /\ [][Flow]_vars

\* straight-line bodies: no statement of a shape the docstring of flow() excludes
StraightLine(body) == \A n \in DOMAIN body : body[n].kind \notin UnsupportedKinds

\* no two statements of the body write the same name
SingleWriters(body) ==
    \A m, n \in DOMAIN body : m # n => body[m].stores \cap body[n].stores = {}

SeqBlocks == { b \in Blocks \cup ExtraBlocks : StraightLine(b) /\ SingleWriters(b) }

\* flow(fn) and one call, for the straight-line bodies with one writer per name
SpecSeq == InitWith(SeqBlocks) /\ [][Next]_vars

\* two independent statements that both raise: x = boom(); x = boom()
TwoFailuresBlock ==
    << Assign("x", "boom", {}, 0), Assign("x", "boom", {}, 0) >>

\* the bodies that are called more than once
CallBlocks ==
    {LiteralBlock, FailureBlock, TwoFailuresBlock}
        \cup UNION { [1..n -> Alphabet] : n \in 1..MaxCallStmts }

InitCalls == Init /\ statements \in CallBlocks

NextCalls ==
    \/ Next
    \/ CallAgain
    \/ \E c \in DOMAIN prev : \E i \in NodeIds : PrevEval(c, i)
    \/ \E c \in DOMAIN prev : \E i \in NodeIds : PrevRaise(c, i)
    \/ \E c \in DOMAIN prev : \E i \in NodeIds : PrevStore(c, i)

\* repeated calls of one compiled callable
SpecCalls == InitCalls /\ [][NextCalls]_vars

-----------------------------------------------------------------------------
(* loop.py: with_context and loop                                          *)

ItemValues == {1, 2}

\* the collection of the parallel-map scenario
ScenarioItems == <<1, 2, 3>>

Collections == {ScenarioItems} \cup UNION { [1..n -> ItemValues] : n \in 0..MaxItems }

\* what loop is given: a collection, or an integer n standing for range(n)
Iterables ==
    {[isint |-> FALSE, n |-> 0, seq |-> c] : c \in Collections}
        \cup {[isint |-> TRUE, n |-> n, seq |-> << >>] : n \in 0..MaxItems}

\* keyword sets given to with_context and to loop
Contexts == {Empty, "q" :> 2, ("q" :> 3) @@ ("r" :> 3)}

\* element operations:  def double(x): return x * 2
\*                      def scale(x, q, **rest): return x * q
\*                      def picky(x, **rest): raises ValueError on an odd x, else x * 2
Operations == {"double", "scale", "picky"}

\* whether fn(item, **kw) binds its parameters
accepts(op, kw) ==
    CASE op = "double" -> DOMAIN kw = {}
      [] op = "scale"  -> "q" \in DOMAIN kw
      [] op = "picky"  -> TRUE

\* fn(item, **kw)
call_fn(op, item, kw) ==
    IF ~accepts(op, kw)
    THEN [kind |-> "raise", v |-> item, exc |-> "TypeError"]
    ELSE CASE op = "double" -> [kind |-> "value", v |-> item * 2, exc |-> ""]
           [] op = "scale"  -> [kind |-> "value", v |-> item * kw["q"], exc |-> ""]
           [] op = "picky"  -> IF item % 2 = 1
                               THEN [kind |-> "raise", v |-> item, exc |-> "ValueError"]
                               ELSE [kind |-> "value", v |-> item * 2, exc |-> ""]

\* faulty variant: with_context adds to the default context
MergedInto(old, new) == new @@ old

\* with_context: _loop_context = context
with_context(old, new) == new

\* faulty variant: the default context wins over the keyword arguments of the call
DefaultWins(default, explicit) == default @@ explicit

\* decorator: {**_loop_context, **explicit_context}
merge_context(default, explicit) == explicit @@ default

\* decorator: list(range(iterable)) for an int, list(iterable) otherwise
list_items(it) == IF it.isint THEN [i \in 1..it.n |-> i - 1] ELSE it.seq

\* ThreadPoolExecutor(max_workers=...) refuses a pool without workers
ThreadPoolExecutor(workers) == IF workers <= 0 THEN "ValueError" ELSE "pool"

\* faulty variant: the results are taken in the order the operations finished
FinishedAt(k, finished) == IF k <= Len(finished) THEN finished[k] ELSE 0

\* [f.result() for f in futures]: the k-th future is the one of the k-th item
future_at(k, finished) == k

LFinished(st) == st \in {"ok", "failed"}

\* faulty variant: leaving the with block does not wait
ExitNoWait(futs) == TRUE

\* Executor.__exit__: shutdown(wait=True) returns when every work item has finished
shutdown_wait(futs) == \A i \in DOMAIN futs : LFinished(futs[i].state)

WithContext(ctx) ==
    /\ loop_context' = with_context(loop_context, ctx)
    /\ last_with' = ctx
    /\ UNCHANGED <<flowvars, lpc, iterable, loop_fn, explicit_context, called_default,
                   context, items, lfut, lk, lout, lresult, lfinished>>

\* loop(it, **kw)(op) up to the end of the submissions
LoopCall(it, op, kw) ==
    /\ lpc \in {"idle", "returned", "raised"}
    /\ iterable' = it
    /\ loop_fn' = op
    /\ explicit_context' = kw
    /\ called_default' = last_with
    /\ LET its == list_items(it)
           ctx == merge_context(loop_context, kw)
       IN  /\ items' = its
           /\ context' = ctx
           /\ IF ThreadPoolExecutor(Len(its)) = "ValueError"
              THEN /\ lfut' = << >>
                   /\ lpc' = "raised"
                   /\ lresult' = [kind |-> "raise", list |-> << >>, exc |-> "ValueError",
                                  item |-> 0, index |-> 0]
              ELSE /\ lfut' = [i \in 1..Len(its) |->
                                  [state |-> "queued", item |-> its[i], kwargs |-> ctx,
                                   out |-> NoOutcome]]
                   /\ lpc' = "collect"
                   /\ lresult' = NoResult
    /\ lk' = 1
    /\ lout' = << >>
    /\ lfinished' = << >>
    /\ UNCHANGED <<flowvars, loop_context, last_with>>

\* a pool thread takes the work item of element i
LStart(i) ==
    /\ lfut[i].state = "queued"
    /\ Cardinality({j \in DOMAIN lfut : lfut[j].state = "running"}) < Len(items)
    /\ lfut' = [lfut EXCEPT ![i].state = "running"]
    /\ UNCHANGED <<flowvars, loop_context, last_with, lpc, iterable, loop_fn,
                   explicit_context, called_default, context, items, lk, lout,
                   lresult, lfinished>>

\* fn(item, **context) ends in its pool thread: the future holds a value or an exception
LFinish(i) ==
    /\ lfut[i].state = "running"
    /\ LET o == call_fn(loop_fn, lfut[i].item, lfut[i].kwargs)
       IN  lfut' = [lfut EXCEPT ![i].state = IF o.kind = "raise" THEN "failed" ELSE "ok",
                                ![i].out = o]
    /\ lfinished' = Append(lfinished, i)
    /\ UNCHANGED <<flowvars, loop_context, last_with, lpc, iterable, loop_fn,
                   explicit_context, called_default, context, items, lk, lout, lresult>>

\* f.result() of the comprehension returns a value
Collect ==
    /\ lpc = "collect"
    /\ LET j == future_at(lk, lfinished)
       IN  /\ j \in DOMAIN lfut
           /\ lfut[j].state = "ok"
           /\ lout' = Append(lout, lfut[j].out.v)
           /\ lk' = lk + 1
           /\ IF lk = Len(items)
              THEN /\ lpc' = "exit"
                   /\ lresult' = [kind |-> "value", list |-> Append(lout, lfut[j].out.v),
                                  exc |-> "", item |-> 0, index |-> 0]
              ELSE UNCHANGED <<lpc, lresult>>
    /\ UNCHANGED <<flowvars, loop_context, last_with, iterable, loop_fn, explicit_context,
                   called_default, context, items, lfut, lfinished>>

\* f.result() of the comprehension raises the exception of its future
CollectRaise ==
    /\ lpc = "collect"
    /\ LET j == future_at(lk, lfinished)
       IN  /\ j \in DOMAIN lfut
           /\ lfut[j].state = "failed"
           /\ lresult' = [kind |-> "raise", list |-> << >>, exc |-> lfut[j].out.exc,
                          item |-> lfut[j].out.v, index |-> j]
    /\ lpc' = "exit"
    /\ UNCHANGED <<flowvars, loop_context, last_with, iterable, loop_fn, explicit_context,
                   called_default, context, items, lfut, lk, lout, lfinished>>

\* the with block is left: control is back with the caller
LoopExit ==
    /\ lpc = "exit"
    /\ shutdown_wait(lfut)
    /\ lpc' = IF lresult.kind = "raise" THEN "raised" ELSE "returned"
    /\ UNCHANGED <<flowvars, loop_context, last_with, iterable, loop_fn, explicit_context,
                   called_default, context, items, lfut, lk, lout, lresult, lfinished>>

LoopInit == Init /\ statements = LiteralBlock

LoopNext ==
    \/ \E ctx \in Contexts : WithContext(ctx)
    \/ \E it \in Iterables : \E op \in Operations : \E kw \in Contexts : LoopCall(it, op, kw)
    \/ \E i \in DOMAIN lfut : LStart(i)
    \/ \E i \in DOMAIN lfut : LFinish(i)
    \/ Collect
    \/ CollectRaise
    \/ LoopExit

\* with_context and loop, called any number of times
SpecLoop == LoopInit /\ [][LoopNext]_vars

-----------------------------------------------------------------------------
(* Helpers of the properties *)

\* the nodes of the graph that were given a future
Started == { i \in DOMAIN fstate : fstate[i] # "none" }

\* the nodes whose future holds an exception
Failed == { i \in DOMAIN fstate : fstate[i] = "failed" }

\* S and every node that depends on a node of S, directly or transitively
RECURSIVE Descendants(_)
Descendants(S) ==
    LET more == S \cup { j \in NodeIds : Node(j).deps \cap S # {} }
    IN  IF more = S THEN S ELSE Descendants(more)

\* the positions (idx) of the operations of the body: every statement but the returns
OpIdx == { idx \in 0..(Len(statements) - 1) : statements[idx + 1].kind # "Return" }

\* the position in the body of the operation node k was built from
StmtOfNode(k) ==
    CHOOSE idx \in OpIdx : Cardinality({ j \in OpIdx : j < idx }) = k

\* the operations before position idx that write v
Writers(v, idx) ==
    { j \in OpIdx : j < idx /\ v \in reads_writes(statements[j + 1]).writes }

\* p(v): the latest of them in program order
LatestWriter(v, idx) ==
    CHOOSE j \in Writers(v, idx) : \A h \in Writers(v, idx) : h <= j

HasUnsupported ==
    \E n \in 1..Len(statements) : statements[n].kind \in UnsupportedKinds

-----------------------------------------------------------------------------
(* C1: a node is submitted to the pool only after every node of its        *)
(* dependency set has completed successfully; in the diamond, D starts     *)
(* only after both B and C have finished, whichever finishes first.        *)
C1_StartAfterDeps ==
    \A i \in Started :
        \A d \in Node(i).deps : d \in DOMAIN fstate /\ fstate[d] = "ok"

\* the diamond with C observed before B, and D running
C1_Witness ==
    /\ statements = DiamondBlock
    /\ observed = <<0, 2, 1>>
    /\ fstate[3] = "running"

(* C2: when a node's body raises, no node that depends on it, directly or  *)
(* transitively, is ever submitted or executed in that invocation.         *)
C2_NoDependentOfFailed ==
    \A i \in Failed :
        \A j \in Descendants({i}) \ {i} : fstate[j] = "none"

\* f1 raised, c was never submitted, the independent d = b + 1 completed
C2_Witness ==
    /\ statements = FailureBlock
    /\ pc = "raised"
    /\ fstate[0] = "failed"
    /\ fstate[2] = "none"
    /\ fstate[3] = "ok"

(* C3: when nodes fail, the call raises exactly the exception of the first *)
(* failed future the event loop observes, not an aggregate; the return     *)
(* expression is never evaluated and no value is returned.                 *)
C3_FirstFailureWins ==
    /\ pc = "raised" =>
          LET f == observed[Len(observed)]
          IN  /\ fstate[f] = "failed"
              /\ \A n \in 1..(Len(observed) - 1) : fstate[observed[n]] = "ok"
              /\ result = [kind |-> "raise", v |-> 0, exc |-> exc[f].exc, node |-> f]
              /\ evals = 0
    /\ (\E n \in 1..Len(observed) : fstate[observed[n]] = "failed") => pc = "raised"
    /\ pc \in {"returned", "eval_raised"} => Failed = {}

\* two nodes failed; the one raised is the one observed first, not the lowest-numbered
C3_Witness ==
    /\ pc = "raised"
    /\ Cardinality(Failed) = 2
    /\ \E g \in Failed : g < result.node

(* C4 as claimed: at the moment the flow call raises a node's failure, no  *)
(* node of that invocation is still Running (submitted and not finished).  *)
C4_NothingRunningAtRaise ==
    pc = "raised" =>
        \A i \in DOMAIN fstate : fstate[i] # "queued" /\ ~Running(fstate[i])

(* C4 amended: at the moment the flow call raises a node's failure, every  *)
(* submitted node that no worker had started is cancelled (none is left    *)
(* queued); nodes already running are not waited for.                      *)
C4_QueuedCancelledAtRaise ==
    pc = "raised" => \A i \in DOMAIN fstate : fstate[i] # "queued"

\* the call has raised: one node was cancelled, another is still running
C4_Witness ==
    /\ pc = "raised"
    /\ \E i \in DOMAIN fstate : fstate[i] = "cancelled"
    /\ \E i \in DOMAIN fstate : Running(fstate[i])

(* C5: once a node has completed with a failure the scheduler submits no   *)
(* further node, in particular not the dependents of a node whose          *)
(* successful completion is processed in the same batch of completed       *)
(* futures: while the batch in hand holds a failed future, no node that    *)
(* was not submitted becomes submitted.                                    *)
C5_NoSubmitAfterFailure ==
    [][ (pc = "process" /\ \E f \in done : fstate[f] = "failed")
            => \A j \in DOMAIN fstate : fstate[j] = "none" => fstate'[j] = "none" ]_vars

(* C6: a body holding a statement of an unsupported shape (if, for, while, *)
(* with, try) is rejected by flow(): no callable is returned and no node   *)
(* of the body ever runs.                                                  *)
C6_UnsupportedRejected ==
    HasUnsupported => pc = "source" /\ Started = {}

C8_DepsPointEarlier ==
    pc # "source" =>
        \A k \in NodeIds : \A d \in Node(k).deps : 0 <= d /\ d < k

(* C9: on every successful call the return expression is evaluated exactly *)
(* once, after every node of the graph has completed, against the          *)
(* namespace holding their writes, and its value is returned; without a    *)
(* return statement the call returns None.                                 *)
C9_ResultAfterAllNodes ==
    pc = "returned" =>
        /\ \A i \in NodeIds : fstate[i] = "ok"
        /\ IF return_code = NoReturn
           THEN result.kind = "None" /\ evals = 0
           ELSE /\ evals = 1
                /\ result.kind = "value"
                /\ result.v = ValueOf(return_code, locals_ns)

(* C10: a = f1(); b = f2(); c = a + 1; d = b + 1; return c + d, with f1    *)
(* returning 2 and f2 returning 3, returns 7 under every interleaving, and *)
(* the nodes of a and b have no dependency edge between them.              *)
C10_LiteralReturns7 ==
    statements = LiteralBlock =>
        /\ pc \notin {"raised", "eval_raised"}
        /\ pc = "returned" => result.kind = "value" /\ result.v = 7
        /\ pc # "source" => 1 \notin Node(0).deps /\ 0 \notin Node(1).deps

\* the literal block returned 7 after d = b + 1 was observed before a = f1()
C10_Witness ==
    /\ statements = LiteralBlock
    /\ pc = "returned"
    /\ result.v = 7
    /\ observed[1] = 1
    /\ observed[2] = 3

-----------------------------------------------------------------------------
\* neither node is reachable from the other along dependency edges
NoPath(i, j) == j \notin Descendants({i}) /\ i \notin Descendants({j})

\* the worker of node i can take its next step
CanProceed(i) == ENABLED (EvalNode(i) \/ RaiseNode(i) \/ StoreNode(i))

\* the allowed moves of a node's future
Forward(a, b) ==
    \/ a = b
    \/ <<a, b>> \in { <<"none", "queued">>, <<"queued", "running">>,
                      <<"queued", "cancelled">>, <<"running", "computed">>,
                      <<"running", "failed">>, <<"computed", "ok">> }

(* C11: when the event loop exits without a failure no node remains        *)
(* Pending, Ready or Running: every node of the graph has been executed    *)
(* and is Done.                                                            *)
C11_AllDoneAtLoopExit ==
    (pc \in {"returned", "eval_raised"} \/ (pc = "wait" /\ futures = {}))
        => \A i \in NodeIds : fstate[i] = "ok"

(* C12: two nodes with no path between them are not serialized: while one  *)
(* is Running the other, once submitted, can start at once, and when both  *)
(* are Running either can complete first.                                  *)
C12_IndependentNotSerialized ==
    \A i, j \in DOMAIN fstate :
        /\ (i # j /\ Running(fstate[i]) /\ fstate[j] = "queued" /\ NoPath(i, j))
              => ENABLED StartNode(j)
        /\ (i # j /\ Running(fstate[i]) /\ Running(fstate[j]) /\ NoPath(i, j))
              => CanProceed(i) /\ CanProceed(j)

\* a = f1() and b = f2() of the literal block are running at the same time
C12_Witness ==
    /\ statements = LiteralBlock
    /\ pc = "wait"
    /\ fstate[0] = "running"
    /\ fstate[1] = "running"
    /\ NoPath(0, 1)

(* C13: when a node starts, the writes of every node of its dependency set *)
(* are in the namespace, so every variable it reads that an earlier        *)
(* operation of the body writes is bound at that moment.                   *)
C13_ReadsBoundAtStart ==
    \A i \in Started :
        /\ \A d \in Node(i).deps \cap DOMAIN fstate :
              Node(d).code.stores \subseteq DOMAIN locals_ns
        /\ \A v \in reads_writes(Node(i).code).reads :
              Writers(v, StmtOfNode(i)) # {} => v \in DOMAIN locals_ns

(* C14: when two nodes without an edge between them write the same name,   *)
(* nothing serializes the stores: the name holds the value of whichever    *)
(* store came last, so either value can reach a later reader and the       *)
(* result expression.                                                      *)
C14_LastStoreWins ==
    /\ \A v \in DOMAIN locals_ns :
          v \in DOMAIN last_writer /\ locals_ns[v] = computed[last_writer[v]]
    /\ \A i, j \in DOMAIN fstate :
          (i # j /\ fstate[i] = "computed" /\ fstate[j] = "computed")
              => ENABLED StoreNode(i) /\ ENABLED StoreNode(j)
    /\ (statements = RaceBlock /\ pc # "source") => NoPath(0, 1)

\* x = f1(); x = f2(); y = x + 1; return x: the reader saw the value of x = f2(),
\* the result expression the value of x = f1()
C14_Witness ==
    /\ statements = RaceBlock
    /\ pc = "returned"
    /\ locals_ns["y"] = 4
    /\ result.v = 2

(* C20: within an invocation each node moves only forward along Pending -> *)
(* Ready -> Running -> Done or Failed, never back, and is submitted to the *)
(* pool at most once, also when it has several dependencies.               *)
C20_Lifecycle ==
    [][ \A i \in DOMAIN fstate \cap DOMAIN fstate' :
            /\ Forward(fstate[i], fstate'[i])
            /\ submits'[i] <= 1
            /\ (fstate'[i] = "none") = (submits'[i] = 0) ]_vars

\* D of the diamond, with two dependencies completed one after the other, ran once
C20_Witness ==
    /\ statements = DiamondBlock
    /\ observed = <<0, 1, 2, 3>>
    /\ submits[3] = 1
    /\ fstate[3] = "ok"

\* the dependencies of node i whose successful completion the event loop has processed
SeenDone(i) ==
    { d \in Node(i).deps :
        \E n \in 1..Len(observed) : observed[n] = d /\ fstate[d] = "ok" }

LFailed == {i \in DOMAIN lfut : lfut[i].state = "failed"}

Lowest(S) == CHOOSE m \in S : \A n \in S : m <= n

\* the failing element whose operation ended first
FirstFailedInTime ==
    lfinished[Lowest({n \in 1..Len(lfinished) : lfinished[n] \in LFailed})]

\* the default context overridden key by key
Override(default, explicit) ==
    [k \in DOMAIN default \cup DOMAIN explicit |->
        IF k \in DOMAIN explicit THEN explicit[k] ELSE default[k]]

InputLength == IF iterable.isint THEN iterable.n ELSE Len(iterable.seq)

(* C16: when no element operation raised, the list loop returns has, for   *)
(* every i, the operation's result for the i-th input element at position  *)
(* i, whatever the order in which the operations finished.                 *)
C16_InputOrder ==
    /\ (lpc \in {"returned", "raised"} /\ LFailed = {}) =>
          \A i \in 1..Len(items) :
              /\ lpc = "returned"
              /\ i <= Len(lresult.list)
              /\ lresult.list[i] = call_fn(loop_fn, items[i], context).v
    /\ lpc = "returned" => Len(lresult.list) = Len(items)

\* double over [1, 2, 3] returned [2, 4, 6] although element 3 finished first
\* and element 1 last
C16_Witness ==
    /\ lpc = "returned"
    /\ loop_fn = "double"
    /\ items = ScenarioItems
    /\ lresult.list = <<2, 4, 6>>
    /\ lfinished = <<3, 2, 1>>

(* C17 as stated: when element operations raised, the call raises the      *)
(* error that was raised first in time, and returns no list.               *)
C17_FirstRaisedInTime ==
    (lpc \in {"returned", "raised"} /\ LFailed # {}) =>
        /\ lpc = "raised"
        /\ lresult.index = FirstFailedInTime
        /\ lresult.list = << >>

(* C17 amended: when element operations raised, the call raises the error  *)
(* of the failing element that comes first in the input, after every       *)
(* element operation has ended, and returns no list, not even the part it  *)
(* had collected.                                                          *)
C17_LowestIndexError ==
    (lpc \in {"returned", "raised"} /\ LFailed # {}) =>
        /\ lpc = "raised"
        /\ lresult.kind = "raise"
        /\ lresult.index = Lowest(LFailed)
        /\ lresult.exc = lfut[Lowest(LFailed)].out.exc
        /\ lresult.item = items[Lowest(LFailed)]
        /\ lresult.list = << >>
        /\ \A i \in DOMAIN lfut : LFinished(lfut[i].state)

\* picky over [1, 2, 3]: element 3 raised first, the caller gets the error of element 1
C17_Witness ==
    /\ lpc = "raised"
    /\ loop_fn = "picky"
    /\ items = ScenarioItems
    /\ lfinished[1] = 3
    /\ lresult.index = 1
    /\ lresult.item = 1

(* C18: the context every element operation receives is the keyword set of *)
(* the most recent with_context call, overridden key by key by the keyword *)
(* arguments of the loop call; with_context replaces the default.          *)
C18_ContextMerge ==
    /\ loop_context = last_with
    /\ lpc # "idle" =>
          /\ context = Override(called_default, explicit_context)
          /\ \A i \in DOMAIN lfut : lfut[i].kwargs = context

\* default q = 2, call with q = 3, r = 3: scale multiplied by 3
C18_Witness ==
    /\ lpc = "returned"
    /\ loop_fn = "scale"
    /\ items = ScenarioItems
    /\ called_default = ("q" :> 2)
    /\ explicit_context = (("q" :> 3) @@ ("r" :> 3))
    /\ lresult.list = <<3, 6, 9>>

(* C19: for every collection and every integer n >= 0, the empty           *)
(* collection and n = 0 included, a loop call whose operations do not      *)
(* raise returns a list as long as the input, the i-th result being the    *)
(* operation applied to i for an integer.                                  *)
C19_SameLengthAsInput ==
    (lpc \in {"returned", "raised"} /\ LFailed = {}) =>
        /\ lpc = "returned"
        /\ Len(lresult.list) = InputLength
        /\ iterable.isint =>
              \A i \in 1..iterable.n :
                  lresult.list[i] = call_fn(loop_fn, i - 1, context).v

C21_CounterAndSubmission ==
    /\ [][pc = "compiled" =>
            \A i \in DOMAIN deps_remaining' :
                deps_remaining'[i] = Cardinality(Node(i).deps)]_vars
    /\ [](pc \notin {"source", "compiled"} =>
            \A i \in NodeIds :
                /\ deps_remaining[i] >= 0
                /\ deps_remaining[i] = Cardinality(Node(i).deps \ SeenDone(i)))
    /\ [](pc \notin {"source", "compiled"} =>
            \A i \in NodeIds :
                /\ submits[i] >= 1 => deps_remaining[i] = 0
                /\ (pc # "kick" /\ deps_remaining[i] = 0) => submits[i] = 1)
    /\ [][\A i \in DOMAIN submits \cap DOMAIN submits' :
            submits'[i] > submits[i] =>
                \/ pc = "kick" /\ Node(i).deps = {}
                \/ /\ pc = "process"
                   /\ deps_remaining[i] = 1
                   /\ deps_remaining'[i] = 0
                   /\ \E f \in done :
                         /\ observed' = Append(observed, f)
                         /\ f \in Node(i).deps
                         /\ fstate[f] = "ok"]_vars

\* the diamond after B was processed and before C: D still waits for one dependency
C21_Witness ==
    /\ statements = DiamondBlock
    /\ pc = "wait"
    /\ observed = <<0, 1>>
    /\ deps_remaining[3] = 1
    /\ submits[3] = 0
    /\ submits[2] = 1

(* C25: a loop call returns or raises only after every submitted element   *)
(* operation has finished: once control is back with the caller no element *)
(* operation is queued or running, on success and on failure alike, and    *)
(* the step that gives control back is taken with all of them finished.    *)
C25_AllFinishedAtExit ==
    /\ [](lpc \in {"returned", "raised"} =>
            \A i \in DOMAIN lfut : LFinished(lfut[i].state))
    /\ [][(lpc = "exit" /\ lpc' # "exit") =>
            /\ lpc' \in {"returned", "raised"}
            /\ lfut' = lfut
            /\ \A i \in DOMAIN lfut : LFinished(lfut[i].state)]_vars

\* picky over [1, 2, 3]: element 1 failed first, and the call raised its error
\* only after elements 2 and 3 had ended too
C25_Witness ==
    /\ lpc = "raised"
    /\ loop_fn = "picky"
    /\ items = ScenarioItems
    /\ lfinished = <<1, 3, 2>>
    /\ lresult.index = 1
    /\ \A i \in DOMAIN lfut : LFinished(lfut[i].state)

(* C24: for every statement, each variable the statement consumes and that *)
(* an earlier operation writes is in the reads set the analyzer computes,  *)
(* and its latest earlier writer is in the dependency set: also the target *)
(* of an augmented assignment and a name the builtins filter removes.      *)
C24_ReadsCoverConsumed ==
    pc # "source" =>
        \A k \in NodeIds :
            LET idx == StmtOfNode(k)
                st  == statements[idx + 1]
            IN  \A v \in Consumed(st) :
                    Writers(v, idx) # {} =>
                        /\ v \in reads_writes(st).reads
                        /\ LatestWriter(v, idx) \in Node(k).deps

\* the outcome of executing the statements from position n on, one after the
\* other in program order, in the namespace ns
RECURSIVE Sequential(_, _, _)
Sequential(stmts, n, ns) ==
    IF n > Len(stmts)
    THEN [kind |-> "None", v |-> 0]
    ELSE LET st == stmts[n]
         IN  IF Raises(st, ns) THEN [kind |-> "raise", v |-> 0]
             ELSE IF st.kind = "Return" THEN [kind |-> "value", v |-> ValueOf(st, ns)]
             ELSE Sequential(stmts, n + 1, Bind(ns, st.stores, ValueOf(st, ns)))

(* C23: for a straight-line body in which no two operations write the same *)
(* name, whenever executing the statements one after the other returns,    *)
(* the flow call returns too, with the same value, in every interleaving:  *)
(* also when an operation overwrites a parameter an earlier one reads.     *)
C23_SameAsSequential ==
    LET seq == Sequential(statements, 1, Arguments(statements))
    IN  (pc \in {"returned", "raised", "eval_raised"} /\ seq.kind # "raise") =>
            /\ pc = "returned"
            /\ result.kind = seq.kind
            /\ result.v = seq.v
====
